---- MODULE Spec2Model ----
(***************************************************************************)
(* The container tree of the window manager, the drag/resize-end handler   *)
(* (handle_window_moved_or_resized_end.rs) and directional focus           *)
(* (focus_in_direction.rs), with the geometry they consult.                *)
(***************************************************************************)
EXTENDS Integers, Sequences, FiniteSets, TLC

\* ------------------------------------------------------------------ bounds

NumWindows == 3
MaxSplits == 2
MonW == 3
MonH == 3
MaxEvents == 2

\* ------------------------------------------------------------- identifiers

Nil == 0
Root == 1

MonitorIds == {Root + 1, Root + 2}
WorkspaceIds == {Root + 3, Root + 4}
HomeWorkspace(m) == m + 2
Windows == (Root + 5)..(Root + 4 + NumWindows)
Splits == (Root + 5 + NumWindows)..(Root + 4 + NumWindows + MaxSplits)
Ids == {Root} \cup MonitorIds \cup WorkspaceIds \cup Windows \cup Splits

Directions == {"Left", "Right", "Up", "Down"}
TilingDirections == {"Horizontal", "Vertical"}
DropPositions == {"Top", "Bottom", "Left", "Right"}

VARIABLES
  kind,              \* Container variant of every id ("none": not allocated)
  parent,            \* recorded parent of every container
  children,          \* ordered children of every container
  tiling_direction,  \* of the direction containers
  focus_order,       \* child focus order of every container, most recent first
  wstate,            \* WindowState of every window
  floating_placement, \* top-left corner of a window's floating rect
  active_drag,       \* active-drag marker of every window
  is_paused,         \* WmState.is_paused
  pending_sync,      \* the pending-sync queue
  events,            \* number of commands/events handled so far
  last,              \* what the last command/event did (history)
  dp,                \* drop_position's last input and output (history)
  fm,                \* find_monitor_by_anchor_point's input and output
  ta                 \* try_arrange_window_between_monitors' input and output

vars == <<kind, parent, children, tiling_direction, focus_order, wstate,
          floating_placement, active_drag, is_paused, pending_sync, events, last,
          dp, fm, ta>>

\* The tree as one value, for the operators that transform it.
Tree == [kind |-> kind, parent |-> parent, children |-> children,
         tiling_direction |-> tiling_direction, focus_order |-> focus_order,
         wstate |-> wstate]

\* ---------------------------------------------------------------- sequences

Range(s) == {s[i] : i \in 1..Len(s)}
PosIn(s, x) == CHOOSE i \in 1..Len(s) : s[i] = x
RemoveFrom(s, x) == SelectSeq(s, LAMBDA y : y /= x)
InsertAt(s, i, x) == SubSeq(s, 1, i) \o <<x>> \o SubSeq(s, i + 1, Len(s))
Min2(a, b) == IF a < b THEN a ELSE b
Max2(a, b) == IF a > b THEN a ELSE b
Abs(a) == IF a < 0 THEN 0 - a ELSE a
\* F applied to the value of e, with e evaluated once.
With(e, F(_)) == CHOOSE r \in {F(t) : t \in {e}} : TRUE

\* ----------------------------------------------------------------- geometry

\* Point::from_xy
Point(x, y) == [x |-> x, y |-> y]

\* Rect::center_point: left + width / 2, top + height / 2.
center_point(rect) ==
  Point(rect.left + ((rect.right - rect.left) \div 2),
        rect.top + ((rect.bottom - rect.top) \div 2))

\* Rect::contains_point, half open as in section 4.3 of the design.
contains_point(rect, p) ==
  /\ rect.left <= p.x /\ p.x < rect.right
  /\ rect.top <= p.y /\ p.y < rect.bottom

\* Rect::distance_to_point, squared: the distance to the nearest edge or
\* corner, zero inside. Squaring keeps the order of the distances, which is
\* all the callers use.
distance_to_point(rect, p) ==
  LET dx == Max2(Max2(rect.left - p.x, 0), p.x - rect.right)
      dy == Max2(Max2(rect.top - p.y, 0), p.y - rect.bottom)
  IN  dx * dx + dy * dy

\* ------------------------------------------------------------ tree getters

IsWindow(T, c) == T.kind[c] \in {"tiling_window", "non_tiling_window"}
\* as_tiling_container succeeds on splits and tiling windows.
IsTilingContainer(T, c) == T.kind[c] \in {"split", "tiling_window"}
\* as_direction_container succeeds on workspaces and splits.
IsDirectionContainer(T, c) == T.kind[c] \in {"workspace", "split"}

\* CommonGetters::index, 0-based as in the code.
index(T, c) == PosIn(T.children[T.parent[c]], c) - 1

\* CommonGetters::tiling_children
tiling_children(T, p) ==
  SelectSeq(T.children[p], LAMBDA c : IsTilingContainer(T, c))

\* WindowGetters::tiling_siblings
tiling_siblings(T, c) == RemoveFrom(tiling_children(T, T.parent[c]), c)

\* CommonGetters::ancestors, nearest first.
RECURSIVE ancestors(_, _)
ancestors(T, c) ==
  IF T.parent[c] = Nil THEN <<>>
  ELSE <<T.parent[c]>> \o ancestors(T, T.parent[c])

self_and_ancestors(T, c) == <<c>> \o ancestors(T, c)

\* CommonGetters::descendants (as a set).
Descendants(T, c) == {d \in Ids : T.kind[d] /= "none" /\ c \in Range(ancestors(T, d))}

\* CommonGetters::workspace and ::monitor: the nearest such ancestor-or-self.
AncestorOfKind(T, c, k) ==
  LET hits == SelectSeq(self_and_ancestors(T, c), LAMBDA a : T.kind[a] = k)
  IN  IF Len(hits) = 0 THEN Nil ELSE hits[1]
workspace(T, c) == AncestorOfKind(T, c, "workspace")
monitor(T, c) == AncestorOfKind(T, c, "monitor")

\* RootContainer::monitors
monitors(T) == T.children[Root]

\* Monitor::displayed_workspace: the monitor's most recently focused
\* workspace.
displayed_workspace(T, m) ==
  IF Len(T.focus_order[m]) = 0 THEN Nil ELSE T.focus_order[m][1]

\* --------------------------------------------------------------- layout

\* Monitors sit side by side, left to right in id order.
MonitorRect(m) ==
  [left |-> (m - (Root + 1)) * MonW, top |-> 0,
   right |-> (m - Root) * MonW, bottom |-> MonH]

\* PositionGetters::to_rect. A workspace fills its monitor; the tiling
\* children of a direction container share its rect equally along its tiling
\* direction, in children order; a floating window sits at its placement.
RECURSIVE to_rect(_, _)
to_rect(T, c) ==
  IF T.kind[c] = "monitor" THEN MonitorRect(c)
  ELSE IF T.kind[c] = "workspace" THEN to_rect(T, T.parent[c])
  ELSE IF IsTilingContainer(T, c) THEN
    LET p == T.parent[c]
        r == to_rect(T, p)
        tc == tiling_children(T, p)
        n == Len(tc)
        i == PosIn(tc, c) - 1
        w == r.right - r.left
        h == r.bottom - r.top
    IN  IF T.tiling_direction[p] = "Horizontal"
        THEN [left |-> r.left + ((i * w) \div n), top |-> r.top,
              right |-> r.left + (((i + 1) * w) \div n), bottom |-> r.bottom]
        ELSE [left |-> r.left, top |-> r.top + ((i * h) \div n),
              right |-> r.right, bottom |-> r.top + (((i + 1) * h) \div n)]
  ELSE [left |-> floating_placement[c].x, top |-> floating_placement[c].y,
        right |-> floating_placement[c].x + 1,
        bottom |-> floating_placement[c].y + 1]

\* The scan of find_monitor_by_anchor_point with an unknown geometry ending
\* the scan with an error.
RECURSIVE try_for_each_unknown_fatal(_, _)
try_for_each_unknown_fatal(mons, anchor) ==
  IF Len(mons) = 0 THEN [ok |-> TRUE, monitor |-> Nil]
  ELSE IF ~Head(mons).known THEN [ok |-> FALSE, monitor |-> Nil]
  ELSE IF contains_point(Head(mons).rect, anchor)
  THEN [ok |-> TRUE, monitor |-> Head(mons).id]
  ELSE try_for_each_unknown_fatal(Tail(mons), anchor)

\* The try_for_each of lines 17-25 over the monitors in the root's order,
\* each with the result of its to_rect: the scan breaks at the first monitor
\* whose to_rect is Ok and contains the anchor and goes on past any other;
\* line 27 returns Ok with the monitor found, if any.
RECURSIVE try_for_each(_, _)
try_for_each(mons, anchor) ==
  IF Len(mons) = 0 THEN [ok |-> TRUE, monitor |-> Nil]
  ELSE IF Head(mons).known /\ contains_point(Head(mons).rect, anchor)
  THEN [ok |-> TRUE, monitor |-> Head(mons).id]
  ELSE try_for_each(Tail(mons), anchor)

\* The monitors of the tree in the root's order, with their rects.
MonitorRects(T) ==
  [i \in 1..Len(monitors(T)) |->
     [id |-> monitors(T)[i], known |-> TRUE, rect |-> to_rect(T, monitors(T)[i])]]

\* find_monitor_by_anchor_point: the first monitor, in the root's order,
\* whose rect contains the anchor; Nil when there is none.
find_monitor_by_anchor_point(T, anchor) ==
  try_for_each(MonitorRects(T), anchor).monitor

\* WmState::monitor_at_point
monitor_at_point(T, p) == find_monitor_by_anchor_point(T, p)

\* WmState::containers_at_point: the descendants of origin whose rect
\* contains the point.
containers_at_point(T, origin, p) ==
  {d \in Descendants(T, origin) : contains_point(to_rect(T, d), p)}

\* -------------------------------------------------------- tree mutators

\* detach_container: unlink c from its parent.
Detach(T, c) ==
  LET p == T.parent[c]
  IN  [T EXCEPT !.children[p] = RemoveFrom(@, c),
                !.focus_order[p] = RemoveFrom(@, c),
                !.parent[c] = Nil]

\* attach_container: link the detached c under p at index i (0-based).
Attach(T, c, p, i) ==
  [T EXCEPT !.children[p] = InsertAt(@, i, c),
            !.focus_order[p] = Append(@, c),
            !.parent[c] = p]

\* VecDequeExt::shift_to_index: remove the item, then insert it at the
\* target index, clamped to the shortened length.
shift_to_index(s, target_index, item) ==
  LET rest == RemoveFrom(s, item)
  IN  InsertAt(rest, Min2(target_index, Len(rest)), item)

\* move_container_within_tree: a container that is already a child of the
\* target parent is shifted to the target index; any other is detached and
\* attached under the target parent at the target index.
move_container_within_tree(T, c, target_parent, target_index) ==
  IF T.parent[c] = target_parent
  THEN [T EXCEPT !.children[target_parent] =
                    shift_to_index(@, target_index, c)]
  ELSE Attach(Detach(T, c), c, target_parent, target_index)

\* wrap_in_split_container: the new split takes the place of the wrapped
\* child in the target parent, and the child becomes the split's only child.
wrap_in_split_container(T, split, direction, target_parent, child) ==
  LET i == index(T, child)
  IN  [T EXCEPT
        !.kind[split] = "split",
        !.tiling_direction[split] = direction,
        !.parent[split] = target_parent,
        !.parent[child] = split,
        !.children[target_parent] = [@ EXCEPT ![i + 1] = split],
        !.children[split] = <<child>>,
        !.focus_order[target_parent] =
          [j \in 1..Len(@) |-> IF @[j] = child THEN split ELSE @[j]],
        !.focus_order[split] = <<child>>]

\* update_window_state(window, Tiling): the window becomes a tiling window
\* of its workspace, at index i of the workspace's children.
set_tiling(T, w, i) ==
  LET ws == workspace(T, w)
      T1 == [T EXCEPT !.kind[w] = "tiling_window", !.wstate[w] = "Tiling"]
  IN  move_container_within_tree(T1, w, ws, i)

\* move_window_to_workspace: the window becomes the last child of the
\* target workspace.
move_window_to_workspace(T, w, ws) ==
  IF workspace(T, w) = ws THEN T
  ELSE Attach(Detach(T, w), w, ws, Len(T.children[ws]))

\* TilingDirection::inverse
inverse(direction) ==
  IF direction = "Horizontal" THEN "Vertical" ELSE "Horizontal"

\* ------------------------------------------------------ drop arrangement

\* drop_position with the diagonals given to the left and right triangles.
drop_position_diagonal_sideways(mouse_pos, rect) ==
  LET delta_x == mouse_pos.x - center_point(rect).x
      delta_y == mouse_pos.y - center_point(rect).y
  IN  IF Abs(delta_x) >= Abs(delta_y)
      THEN (IF delta_x > 0 THEN "Right" ELSE "Left")
      ELSE (IF delta_y > 0 THEN "Bottom" ELSE "Top")

\* drop_position: which of the four triangles of the rect, cut by its
\* diagonals, holds the mouse position.
drop_position(mouse_pos, rect) ==
  LET delta_x == mouse_pos.x - center_point(rect).x
      delta_y == mouse_pos.y - center_point(rect).y
  IN  IF Abs(delta_x) > Abs(delta_y)
      THEN (IF delta_x > 0 THEN "Right" ELSE "Left")
      ELSE (IF delta_y > 0 THEN "Bottom" ELSE "Top")

\* The deepest direction container under the point, other than the window,
\* starting from the workspace: the fold keeps the container with strictly
\* more ancestors.
target_parent_at(T, ws, w, p) ==
  LET cands == {c \in containers_at_point(T, ws, p) :
                  c /= w /\ IsDirectionContainer(T, c)}
      deeper == {c \in cands : Len(ancestors(T, c)) > Len(ancestors(T, ws))}
  IN  IF deeper = {} THEN ws
      ELSE CHOOSE c \in deeper :
             \A d \in deeper : Len(ancestors(T, d)) <= Len(ancestors(T, c))

\* The fold's comparison with the accumulated container kept on a tie.
is_nearer_or_as_near(T, acc, container, p) ==
  distance_to_point(to_rect(T, acc), p)
    <= distance_to_point(to_rect(T, container), p)

\* The fold's comparison: the accumulated container is kept only when it is
\* strictly nearer than the next one.
is_nearer(T, acc, container, p) ==
  distance_to_point(to_rect(T, acc), p)
    < distance_to_point(to_rect(T, container), p)

\* The try_fold over the tiling children of the target parent.
RECURSIVE nearest_fold(_, _, _, _)
nearest_fold(T, cs, p, acc) ==
  IF Len(cs) = 0 THEN acc
  ELSE nearest_fold(T, Tail(cs), p,
         IF acc = Nil THEN Head(cs)
         ELSE IF is_nearer(T, acc, Head(cs), p) THEN acc ELSE Head(cs))

nearest_container(T, target_parent, p) ==
  nearest_fold(T, tiling_children(T, target_parent), p, Nil)

\* should_split without the test that the nearest container is a window.
should_split_any_container(is_tiling_window, direction, position) ==
  IF direction = "Horizontal"
  THEN position \in {"Top", "Bottom"}
  ELSE position \in {"Left", "Right"}

\* should_split: the nearest container is a tiling window and the drop
\* position is across the target parent's tiling direction.
should_split(is_tiling_window, direction, position) ==
  /\ is_tiling_window
  /\ IF direction = "Horizontal"
     THEN position \in {"Top", "Bottom"}
     ELSE position \in {"Left", "Right"}

\* The index in the new split with the two arms exchanged.
split_target_index_exchanged(position) ==
  IF position \in {"Top", "Left"} THEN 1 ELSE 0

\* Index of the moved window in the new split.
split_target_index(position) ==
  IF position \in {"Top", "Left"} THEN 0 ELSE 1

\* Index of the moved window beside the nearest container.
sibling_target_index(T, nearest, position) ==
  IF position \in {"Top", "Left"} THEN index(T, nearest)
  ELSE index(T, nearest) + 1

FreeSplits(T) == {s \in Splits : T.kind[s] = "none"}
\* A split that takes the first id whether or not a container holds it.
NewSplitReusingId(T) == CHOOSE s \in Splits : \A t \in Splits : s <= t

\* SplitContainer::new: a container with a fresh id.
NewSplit(T) == CHOOSE s \in FreeSplits(T) : \A t \in FreeSplits(T) : s <= t

\* What a drop decided (history): the target parent, the nearest container,
\* the tiling children that were at the least distance from the point, the
\* drop position, the split made, and whether the window was placed.
NoDrop == [decided |-> FALSE, via |-> "", target_parent |-> Nil,
           nearest |-> Nil, nearest_is_window |-> FALSE, direction |-> "",
           position |-> "", split |-> Nil, done |-> FALSE, tied |-> <<>>]

\* The tiling children of the target parent at the least distance from the
\* point, in children order.
LeastDistant(T, target_parent, p) ==
  LET tc == tiling_children(T, target_parent)
      d(c) == distance_to_point(to_rect(T, c), p)
  IN  SelectSeq(tc, LAMBDA c : \A i \in 1..Len(tc) : d(c) <= d(tc[i]))

\* What an operation hands back: its Result, the fault that made it fail,
\* the tree it leaves, the containers it queued for redraw, the fallible
\* steps it went through, and what the drop decided.
Outcome(ok, err, T, redraw, reached, drop) ==
  [ok |-> ok, err |-> err, T |-> T, redraw |-> redraw, reached |-> reached,
   drop |-> drop, blocked |-> FALSE]

\* The split-or-insert step shared by drop_as_tiling_window (lines 285-336)
\* and move_window_to_position (lines 159-210). T is the tree at this step,
\* fail the fallible step that fails ("" for none).
split_or_insert(T, w, target_parent, nearest, tied, position, via, reached, fail) ==
  LET direction == T.tiling_direction[target_parent]
      is_window == T.kind[nearest] = "tiling_window"
      split == should_split(is_window, direction, position)
      info == [decided |-> TRUE, via |-> via, target_parent |-> target_parent,
               nearest |-> nearest, nearest_is_window |-> is_window,
               direction |-> direction, position |-> position,
               split |-> Nil, done |-> FALSE, tied |-> tied]
      r1 == reached \cup {"wrap_in_split_container"}
      r2 == r1 \cup {"move_container_within_tree"}
      r3 == reached \cup {"move_container_within_tree"}
  IN  IF split THEN
        IF FreeSplits(T) = {} THEN
          [Outcome(FALSE, "", T, {}, reached, info) EXCEPT !.blocked = TRUE]
        ELSE IF fail = "wrap_in_split_container" THEN
          Outcome(FALSE, fail, T, {}, r1, info)
        ELSE
          LET s == NewSplit(T)
              info1 == [info EXCEPT !.split = s]
          IN  With(wrap_in_split_container(T, s, inverse(direction),
                                           target_parent, nearest),
                LAMBDA T1 :
                  IF fail = "move_container_within_tree" THEN
                    Outcome(FALSE, fail, T1, {}, r2, info1)
                  ELSE
                    Outcome(TRUE, "",
                            move_container_within_tree(T1, w, s,
                              split_target_index(position)),
                            {target_parent}, r2, [info1 EXCEPT !.done = TRUE]))
      ELSE
        IF fail = "move_container_within_tree" THEN
          Outcome(FALSE, fail, T, {}, r3, info)
        ELSE
          Outcome(TRUE, "",
                  move_container_within_tree(T, w, target_parent,
                    sibling_target_index(T, nearest, position)),
                  {target_parent}, r3, [info EXCEPT !.done = TRUE])

\* drop_as_tiling_window: a window dragged out of the tiling layout goes back
\* to tiling at the drop target under the mouse. insertion is the index at
\* which update_window_state places the window in its workspace.
drop_as_tiling_window(T, w, mouse_pos, insertion, fail) ==
  IF fail = "mouse_position" THEN
    Outcome(FALSE, fail, T, {}, {"mouse_position"}, NoDrop)
  ELSE
    LET ws == workspace(T, w)
        target_parent == target_parent_at(T, ws, w, mouse_pos)
        r0 == {"mouse_position", "update_window_state"}
        r1 == {"mouse_position", "to_rect"}
        r2 == r1 \cup {"update_window_state"}
    IN  IF Len(tiling_children(T, target_parent)) = 0 THEN
          IF fail = "update_window_state"
          THEN Outcome(FALSE, fail, T, {}, r0, NoDrop)
          ELSE Outcome(TRUE, "", set_tiling(T, w, insertion), {}, r0, NoDrop)
        ELSE IF fail = "to_rect" THEN
          Outcome(FALSE, fail, T, {}, r1, NoDrop)
        ELSE
          LET nearest == nearest_container(T, target_parent, mouse_pos)
              position == drop_position(mouse_pos, to_rect(T, nearest))
          IN  IF fail = "update_window_state" THEN
                Outcome(FALSE, fail, T, {}, r2, NoDrop)
              ELSE
                With(set_tiling(T, w, insertion), LAMBDA T1 :
                  split_or_insert(T1, w, target_parent, nearest,
                                  LeastDistant(T, target_parent, mouse_pos),
                                  position, "drop_as_tiling_window", r2, fail))

\* move_window_to_position: a tiling window is placed at the drop target
\* under the position, in the workspace displayed there.
move_window_to_position(T, w, position, reached, fail) ==
  LET m == monitor_at_point(T, position)
      shown == IF m = Nil THEN Nil ELSE displayed_workspace(T, m)
      mouse_workspace == IF shown /= Nil THEN shown ELSE workspace(T, w)
      target_parent == target_parent_at(T, mouse_workspace, w, position)
      r1 == reached \cup {"to_rect"}
  IN  IF Len(tiling_children(T, target_parent)) = 0 THEN
        Outcome(TRUE, "", T, {}, reached, NoDrop)
      ELSE IF fail = "to_rect" THEN
        Outcome(FALSE, fail, T, {}, r1, NoDrop)
      ELSE
        LET nearest == nearest_container(T, target_parent, position)
            dpos == drop_position(position, to_rect(T, nearest))
        IN  split_or_insert(T, w, target_parent, nearest,
                            LeastDistant(T, target_parent, position), dpos,
                            "move_window_to_position", r1, fail)

\* The arrangement without the comparison of the target monitor with the
\* window's own.
try_arrange_window_between_monitors_onto_own(T, w, mouse_pos, fail) ==
  IF Len(monitors(T)) < 2 THEN Outcome(TRUE, "", T, {}, {}, NoDrop)
  ELSE
    LET target == find_monitor_by_anchor_point(T, mouse_pos)
        shown == IF target = Nil \/ monitor(T, w) = Nil THEN Nil
                 ELSE displayed_workspace(T, target)
    IN  IF shown = Nil \/ fail /= "" THEN Outcome(TRUE, "", T, {}, {}, NoDrop)
        ELSE
          With(move_window_to_workspace(T, w, shown), LAMBDA T1 :
            move_window_to_position(T1, w, mouse_pos, {}, fail))

\* try_arrange_window_between_monitors: with two monitors or more, a window
\* whose mouse position lies on another monitor moves to the workspace
\* displayed there and is positioned under the mouse.
try_arrange_window_between_monitors(T, w, mouse_pos, fail) ==
  IF Len(monitors(T)) < 2 THEN Outcome(TRUE, "", T, {}, {}, NoDrop)
  ELSE IF fail = "mouse_position" THEN
    Outcome(FALSE, fail, T, {}, {"mouse_position"}, NoDrop)
  ELSE
    LET target == find_monitor_by_anchor_point(T, mouse_pos)
        current == monitor(T, w)
        shown == IF target = Nil \/ current = Nil \/ target = current
                 THEN Nil
                 ELSE displayed_workspace(T, target)
        r0 == {"mouse_position"}
        r1 == r0 \cup {"move_window_to_workspace"}
        r2 == r1 \cup {"mouse_position_again"}
    IN  IF shown = Nil THEN Outcome(TRUE, "", T, {}, r0, NoDrop)
        ELSE IF fail = "move_window_to_workspace" THEN
          Outcome(FALSE, fail, T, {}, r1, NoDrop)
        ELSE IF fail = "mouse_position_again" THEN
          Outcome(FALSE, fail, move_window_to_workspace(T, w, shown), {}, r2,
                  NoDrop)
        ELSE
          With(move_window_to_workspace(T, w, shown), LAMBDA T1 :
            move_window_to_position(T1, w, mouse_pos, r2, fail))

\* ------------------------------------------- handle_window_moved_or_resized_end

NoDrag == [set |-> FALSE, is_from_tiling |-> FALSE, operation |-> "None"]
Drag(from_tiling, op) ==
  [set |-> TRUE, is_from_tiling |-> from_tiling, operation |-> op]

\* What the handler hands back: the outcome of its steps, whether it reached
\* set_active_drag(None), whether resize_window ran, and the error of the
\* monitor arrangement that it logged ("" for none).
Handled(o, cleared, resized, arrange_err) ==
  [ok |-> o.ok, err |-> o.err, T |-> o.T, redraw |-> o.redraw,
   reached |-> o.reached, drop |-> o.drop, blocked |-> o.blocked,
   cleared |-> cleared, resized |-> resized, arrange_err |-> arrange_err]

\* The rest of the arm without the snap of a workspace's only tiling window:
\* the relative resize is applied to it as well.
after_arrangement_resizing_sole_child(arr, monitor1, w, fail) ==
  LET logged == IF arr.ok THEN "" ELSE arr.err
      T1 == arr.T
      p == T1.parent[w]
      r3 == arr.reached \cup {"to_rect_window", "refresh_frame_position",
                              "resize_window"}
  IN  IF monitor1 /= monitor(T1, w) \/ p = Nil \/ fail /= "" THEN
        Handled([Outcome(TRUE, "", T1, arr.redraw, arr.reached, arr.drop)
                   EXCEPT !.blocked = arr.blocked], FALSE, FALSE, logged)
      ELSE
        Handled([Outcome(TRUE, "", T1, arr.redraw \cup {p}, r3, arr.drop)
                   EXCEPT !.blocked = arr.blocked], TRUE, TRUE, logged)

\* The TilingWindow arm of the match after the monitor arrangement (lines
\* 68-94): arr is what try_arrange_window_between_monitors handed back.
after_arrangement(arr, monitor1, w, fail) ==
  LET logged == IF arr.ok THEN "" ELSE arr.err
      T1 == arr.T
      monitor2 == monitor(T1, w)
      p == T1.parent[w]
      r1 == arr.reached \cup {"to_rect_window"}
      r2 == r1 \cup {"refresh_frame_position"}
      r3 == r2 \cup {"resize_window"}
      o(ok, err, redraw, reached) ==
        [Outcome(ok, err, T1, arr.redraw \cup redraw, reached, arr.drop)
           EXCEPT !.blocked = arr.blocked]
  IN  IF monitor1 /= monitor2 THEN
        Handled(o(TRUE, "", {}, arr.reached), FALSE, FALSE, logged)
      ELSE IF p = Nil THEN
        Handled(o(FALSE, "No parent.", {}, arr.reached), FALSE, FALSE, logged)
      ELSE IF fail = "to_rect_window" THEN
        Handled(o(FALSE, fail, {}, r1), FALSE, FALSE, logged)
      ELSE IF T1.kind[p] = "workspace" /\ Len(tiling_siblings(T1, w)) = 0 THEN
        Handled(o(TRUE, "", {w}, r1), FALSE, FALSE, logged)
      ELSE IF fail = "refresh_frame_position" THEN
        Handled(o(TRUE, "", {}, r2), FALSE, FALSE, logged)
      ELSE IF fail = "resize_window" THEN
        Handled(o(FALSE, fail, {}, r3), FALSE, FALSE, logged)
      ELSE
        Handled(o(TRUE, "", {p}, r3), TRUE, TRUE, logged)

\* The TilingWindow arm with the arrangement's error returned to the caller.
resize_tiling_window_propagating(T, w, mouse_pos, fail) ==
  With(try_arrange_window_between_monitors(T, w, mouse_pos, fail),
       LAMBDA arr :
         IF arr.ok THEN after_arrangement(arr, monitor(T, w), w, fail)
         ELSE Handled(arr, FALSE, FALSE, arr.err))

\* The TilingWindow arm of the match (lines 59-95): the error of the monitor
\* arrangement is logged and the arm goes on.
resize_tiling_window(T, w, mouse_pos, fail) ==
  With(try_arrange_window_between_monitors(T, w, mouse_pos, fail),
       LAMBDA arr : after_arrangement(arr, monitor(T, w), w, fail))

\* The NonTilingWindow arm dropping the window after any Moving drag,
\* whether or not it started from the tiling layout.
drop_non_tiling_window_any_move(T, w, drag, mouse_pos, insertion, fail) ==
  IF drag.set /\ drag.operation = "Moving" THEN
    LET o == drop_as_tiling_window(T, w, mouse_pos, insertion, fail)
    IN  Handled(o, o.ok, FALSE, "")
  ELSE Handled(Outcome(TRUE, "", T, {}, {}, NoDrop), TRUE, FALSE, "")

\* The NonTilingWindow arm of the match (lines 48-58).
drop_non_tiling_window(T, w, drag, mouse_pos, insertion, fail) ==
  IF drag.set /\ drag.is_from_tiling /\ drag.operation = "Moving" THEN
    LET o == drop_as_tiling_window(T, w, mouse_pos, insertion, fail)
    IN  Handled(o, o.ok, FALSE, "")
  ELSE Handled(Outcome(TRUE, "", T, {}, {}, NoDrop), TRUE, FALSE, "")

\* The handler without the early return of a paused WM.
handle_window_moved_or_resized_end_while_paused(T, paused, w, drag, mouse_pos, insertion, fail) ==
  IF w = Nil THEN
    Handled(Outcome(TRUE, "", T, {}, {}, NoDrop), FALSE, FALSE, "")
  ELSE IF T.kind[w] = "non_tiling_window" THEN
    drop_non_tiling_window(T, w, drag, mouse_pos, insertion, fail)
  ELSE resize_tiling_window(T, w, mouse_pos, fail)

\* handle_window_moved_or_resized_end, for the native window of w (Nil: a
\* window the WM does not manage).
handle_window_moved_or_resized_end(T, paused, w, drag, mouse_pos, insertion, fail) ==
  IF paused \/ w = Nil THEN
    Handled(Outcome(TRUE, "", T, {}, {}, NoDrop), FALSE, FALSE, "")
  ELSE IF T.kind[w] = "non_tiling_window" THEN
    drop_non_tiling_window(T, w, drag, mouse_pos, insertion, fail)
  ELSE resize_tiling_window(T, w, mouse_pos, fail)

\* ------------------------------------------------------- focus_in_direction

\* TilingDirection::from_direction
from_direction(direction) ==
  IF direction \in {"Left", "Right"} THEN "Horizontal" ELSE "Vertical"

\* Direction::inverse
inverse_direction(direction) ==
  CASE direction = "Left" -> "Right"
    [] direction = "Right" -> "Left"
    [] direction = "Up" -> "Down"
    [] OTHER -> "Up"

Reverse(s) == [i \in 1..Len(s) |-> s[Len(s) + 1 - i]]

\* CommonGetters::prev_siblings (nearest first) and ::next_siblings.
prev_siblings(T, c) ==
  LET cs == T.children[T.parent[c]]
  IN  Reverse(SubSeq(cs, 1, PosIn(cs, c) - 1))
next_siblings(T, c) ==
  LET cs == T.children[T.parent[c]]
  IN  SubSeq(cs, PosIn(cs, c) + 1, Len(cs))

\* find_map(as_tiling_container): the first tiling container of a sequence.
first_tiling(T, cs) ==
  LET hits == SelectSeq(cs, LAMBDA c : IsTilingContainer(T, c))
  IN  IF Len(hits) = 0 THEN Nil ELSE hits[1]

\* The sibling search going round to the far end when it finds nothing.
sibling_in_direction_wrapping(T, origin_or_ancestor, direction) ==
  IF direction \in {"Up", "Left"}
  THEN first_tiling(T, prev_siblings(T, origin_or_ancestor)
                       \o Reverse(next_siblings(T, origin_or_ancestor)))
  ELSE first_tiling(T, next_siblings(T, origin_or_ancestor)
                       \o Reverse(prev_siblings(T, origin_or_ancestor)))

\* The sibling search of one level of tiling_focus_target (lines 142-149).
sibling_in_direction(T, origin_or_ancestor, direction) ==
  IF direction \in {"Up", "Left"}
  THEN first_tiling(T, prev_siblings(T, origin_or_ancestor))
  ELSE first_tiling(T, next_siblings(T, origin_or_ancestor))

\* TilingDirectionGetters::descendant_in_direction: down through the first
\* (Up/Left) or last (Down/Right) tiling child until a tiling window.
RECURSIVE descendant_in_direction(_, _, _)
descendant_in_direction(T, c, direction) ==
  LET tc == tiling_children(T, c)
      child == IF Len(tc) = 0 THEN Nil
               ELSE IF direction \in {"Up", "Left"} THEN tc[1]
               ELSE tc[Len(tc)]
  IN  IF child = Nil THEN Nil
      ELSE IF T.kind[child] = "split"
      THEN descendant_in_direction(T, child, direction)
      ELSE child

Found(target) == [ok |-> TRUE, target |-> target]
Failed == [ok |-> FALSE, target |-> Nil]

\* tiling_focus_target: the loop, from origin_or_ancestor upward.
\* The upward walk searching the siblings at every level, whatever the
\* parent's tiling direction.
RECURSIVE tiling_focus_target_any_axis(_, _, _)
tiling_focus_target_any_axis(T, origin_or_ancestor, direction) ==
  IF T.kind[origin_or_ancestor] = "workspace" THEN Found(Nil)
  ELSE
    LET p == T.parent[origin_or_ancestor]
    IN  IF p = Nil \/ ~IsDirectionContainer(T, p) THEN Failed
        ELSE
          LET focus_target ==
                sibling_in_direction(T, origin_or_ancestor, direction)
          IN  IF focus_target = Nil
              THEN tiling_focus_target_any_axis(T, p, direction)
              ELSE IF T.kind[focus_target] = "tiling_window"
              THEN Found(focus_target)
              ELSE Found(descendant_in_direction(T, focus_target,
                           inverse_direction(direction)))

RECURSIVE tiling_focus_target(_, _, _)
tiling_focus_target(T, origin_or_ancestor, direction) ==
  IF T.kind[origin_or_ancestor] = "workspace" THEN Found(Nil)
  ELSE
    LET p == T.parent[origin_or_ancestor]
    IN  IF p = Nil \/ ~IsDirectionContainer(T, p) THEN Failed
        ELSE IF T.tiling_direction[p] /= from_direction(direction)
        THEN tiling_focus_target(T, p, direction)
        ELSE
          LET focus_target ==
                sibling_in_direction(T, origin_or_ancestor, direction)
          IN  IF focus_target = Nil
              THEN tiling_focus_target(T, p, direction)
              ELSE IF T.kind[focus_target] = "tiling_window"
              THEN Found(focus_target)
              ELSE Found(descendant_in_direction(T, focus_target,
                           inverse_direction(direction)))

is_floating(T, c) ==
  T.kind[c] = "non_tiling_window" /\ T.wstate[c] = "Floating"

\* get_pos: the top-left corner of the container's rect.
get_pos(T, c) == Point(to_rect(T, c).left, to_rect(T, c).top)

Coord(direction, p) == IF direction \in {"Left", "Right"} THEN p.x ELSE p.y

\* sort_by, which is stable: x goes after every element that is not greater.
RECURSIVE SortedInsert(_, _, _, _)
SortedInsert(T, direction, s, x) ==
  IF Len(s) = 0 THEN <<x>>
  ELSE IF Coord(direction, get_pos(T, Head(s))) <= Coord(direction, get_pos(T, x))
       THEN <<Head(s)>> \o SortedInsert(T, direction, Tail(s), x)
       ELSE <<x>> \o s
RECURSIVE SortBy(_, _, _)
SortBy(T, direction, s) ==
  IF Len(s) = 0 THEN <<>>
  ELSE SortedInsert(T, direction,
                    SortBy(T, direction, SubSeq(s, 1, Len(s) - 1)), s[Len(s)])

\* The floating search going round to the far end when nothing lies ahead.
floating_focus_target_wrapping(T, origin, direction) ==
  LET origin_position == Coord(direction, get_pos(T, origin))
      sorted == SortBy(T, direction,
                  SelectSeq(T.children[T.parent[origin]],
                            LAMBDA c : c /= origin /\ is_floating(T, c)))
      below == SelectSeq(sorted, LAMBDA c :
                 Coord(direction, get_pos(T, c)) < origin_position)
      above == SelectSeq(sorted, LAMBDA c :
                 Coord(direction, get_pos(T, c)) > origin_position)
  IN  IF Len(sorted) = 0 THEN Nil
      ELSE IF direction \in {"Left", "Up"}
      THEN (IF Len(below) = 0 THEN sorted[Len(sorted)] ELSE below[Len(below)])
      ELSE (IF Len(above) = 0 THEN sorted[1] ELSE above[1])

\* floating_focus_target
floating_focus_target(T, origin, direction) ==
  LET origin_position == Coord(direction, get_pos(T, origin))
      sorted == SortBy(T, direction,
                  SelectSeq(T.children[T.parent[origin]],
                            LAMBDA c : c /= origin /\ is_floating(T, c)))
      below == SelectSeq(sorted, LAMBDA c :
                 Coord(direction, get_pos(T, c)) < origin_position)
      above == SelectSeq(sorted, LAMBDA c :
                 Coord(direction, get_pos(T, c)) > origin_position)
  IN  IF direction \in {"Left", "Up"}
      THEN (IF Len(below) = 0 THEN Nil ELSE below[Len(below)])
      ELSE (IF Len(above) = 0 THEN Nil ELSE above[1])

\* WmState::monitor_in_direction: the monitor whose rect adjoins this
\* monitor's rect on that side.
monitor_in_direction(T, m, direction) ==
  LET r == to_rect(T, m)
      hits == SelectSeq(monitors(T), LAMBDA n :
                CASE direction = "Right" -> to_rect(T, n).left = r.right
                  [] direction = "Left" -> to_rect(T, n).right = r.left
                  [] OTHER -> FALSE)
  IN  IF Len(hits) = 0 THEN Nil ELSE hits[1]

\* CommonGetters::descendant_focus_order().next(): the most recently focused
\* leaf under c.
RECURSIVE focused_descendant(_, _)
focused_descendant(T, c) ==
  IF Len(T.focus_order[c]) = 0 THEN Nil
  ELSE LET f == T.focus_order[c][1]
       IN  IF Len(T.children[f]) = 0 THEN f ELSE focused_descendant(T, f)

\* The displayed workspace of the monitor in the direction (lines 181-183).
target_workspace_of(T, m, next) ==
  IF m = Nil \/ next = Nil THEN Nil ELSE displayed_workspace(T, next)

\* The focused fullscreen window of the target workspace (lines 185-193).
focused_fullscreen_of(T, focused) ==
  IF focused /= Nil /\ T.kind[focused] = "non_tiling_window"
     /\ T.wstate[focused] = "Fullscreen"
  THEN focused ELSE Nil

\* The target workspace's first child in focus order, when it is a
\* non-tiling window (lines 197-202).
focused_non_tiling_of(T, child) ==
  IF child /= Nil /\ T.kind[child] = "non_tiling_window" THEN child ELSE Nil

\* The or_else chain without the two non-tiling arms: the descent, else the
\* workspace.
first_some_tiling_only(focused_fullscreen, focused_non_tiling, descended, target_workspace) ==
  IF descended /= Nil THEN descended ELSE target_workspace

\* The or_else chain with the descent tried before the focused non-tiling
\* child.
first_some_descending_first(focused_fullscreen, focused_non_tiling, descended, target_workspace) ==
  IF focused_fullscreen /= Nil THEN focused_fullscreen
  ELSE IF descended /= Nil THEN descended
  ELSE IF focused_non_tiling /= Nil THEN focused_non_tiling
  ELSE target_workspace

\* The or_else chain of lines 195-211.
first_some(focused_fullscreen, focused_non_tiling, descended, target_workspace) ==
  IF focused_fullscreen /= Nil THEN focused_fullscreen
  ELSE IF focused_non_tiling /= Nil THEN focused_non_tiling
  ELSE IF descended /= Nil THEN descended
  ELSE target_workspace

\* The focus target in a target workspace (lines 185-211).
focus_target_in(T, target_workspace, direction) ==
  IF target_workspace = Nil THEN Nil
  ELSE first_some(
         focused_fullscreen_of(T, focused_descendant(T, target_workspace)),
         focused_non_tiling_of(T,
           IF Len(T.focus_order[target_workspace]) = 0 THEN Nil
           ELSE T.focus_order[target_workspace][1]),
         descendant_in_direction(T, target_workspace,
                                 inverse_direction(direction)),
         target_workspace)

\* workspace_focus_target
workspace_focus_target_from(T, m, direction) ==
  IF m = Nil THEN Failed
  ELSE Found(focus_target_in(
               T, target_workspace_of(T, m, monitor_in_direction(T, m, direction)),
               direction))

workspace_focus_target(T, origin, direction) ==
  workspace_focus_target_from(T, monitor(T, origin), direction)

\* set_focused_descendant: every container from the target up to the root
\* becomes the first of its parent's focus order.
RECURSIVE set_focused_descendant(_, _)
set_focused_descendant(T, c) ==
  IF T.parent[c] = Nil THEN T
  ELSE set_focused_descendant(
         [T EXCEPT !.focus_order[T.parent[c]] = <<c>> \o RemoveFrom(@, c)],
         T.parent[c])

\* Which search comes first for the origin's variant (lines 18-47): the
\* workspace search follows a first search that found nothing.
first_search(T, origin) ==
  CASE T.kind[origin] = "tiling_window" -> "tiling"
    [] T.kind[origin] = "non_tiling_window" ->
         (IF T.wstate[origin] = "Floating" THEN "floating"
          ELSE IF T.wstate[origin] = "Fullscreen" THEN "workspace"
          ELSE "none")
    [] T.kind[origin] = "workspace" -> "workspace"
    [] OTHER -> "none"

\* map_or_else of lines 22-25 and the match of lines 30-35: an error of
\* the first search is returned, a target it found is kept.
or_workspace_focus_target(T, origin, direction, t) ==
  IF ~t.ok THEN Failed
  ELSE IF t.target /= Nil THEN t
  ELSE workspace_focus_target(T, origin, direction)

\* The match of focus_in_direction on the origin's variant (lines 18-47).
focus_target(T, origin, direction) ==
  IF first_search(T, origin) = "none" THEN Found(Nil)
  ELSE or_workspace_focus_target(T, origin, direction,
         CASE first_search(T, origin) = "tiling" ->
                tiling_focus_target(T, origin, direction)
           [] first_search(T, origin) = "floating" ->
                Found(floating_focus_target(T, origin, direction))
           [] OTHER -> Found(Nil))

\* Lines 49-55 with the focus change and the cursor jump queued whether or
\* not a target was found.
set_focus_queueing_always(T, t) ==
  IF t.ok /\ t.target /= Nil
  THEN [ok |-> TRUE, target |-> t.target,
        T |-> set_focused_descendant(T, t.target), queued |-> TRUE]
  ELSE [ok |-> t.ok, target |-> Nil, T |-> T, queued |-> TRUE]

\* Lines 49-55: the target found becomes the focused descendant and the
\* focus change and the cursor jump are queued.
set_focus(T, t) ==
  IF t.ok /\ t.target /= Nil
  THEN [ok |-> TRUE, target |-> t.target,
        T |-> set_focused_descendant(T, t.target), queued |-> TRUE]
  ELSE [ok |-> t.ok, target |-> Nil, T |-> T, queued |-> FALSE]

\* focus_in_direction: the tree it leaves and whether it queued the focus
\* change and the cursor jump.
focus_in_direction(T, origin, direction) ==
  set_focus(T, focus_target(T, origin, direction))

\* ------------------------------------------------------------------- states

\* Where the cursor may be when an event arrives: on either monitor, or just
\* past their right and bottom edges.
MousePoints == {Point(x, y) : x \in 0..(2 * MonW), y \in 0..MonH}

\* The situations a window may be in when the model starts.
WindowModes == {"tiling", "resizing", "dragged", "floating", "fullscreen",
                "minimized", "moving", "resizing_floated"}
ModeKind(m) ==
  IF m \in {"tiling", "resizing"} THEN "tiling_window" ELSE "non_tiling_window"
ModeState(m) ==
  CASE m \in {"tiling", "resizing"} -> "Tiling"
    [] m = "fullscreen" -> "Fullscreen"
    [] m = "minimized" -> "Minimized"
    [] OTHER -> "Floating"
ModeDrag(m) ==
  CASE m = "resizing" -> Drag(TRUE, "Resizing")
    [] m = "dragged" -> Drag(TRUE, "Moving")
    [] m = "moving" -> Drag(FALSE, "Moving")
    [] m = "resizing_floated" -> Drag(TRUE, "Resizing")
    [] OTHER -> NoDrag

\* The windows in id order, as a sequence.
RECURSIVE SeqOf(_)
SeqOf(S) ==
  IF S = {} THEN <<>>
  ELSE LET x == CHOOSE x \in S : \A y \in S : x <= y
       IN  <<x>> \o SeqOf(S \ {x})

FloatingPlacement(w) == Point(w - (Root + 5), (Root + 4 + NumWindows) - w)

NoEvent ==
  [op |-> "none", window |-> Nil, direction |-> "", ok |-> TRUE, err |-> "",
   arrange_err |-> "", cleared |-> FALSE, resized |-> FALSE, drop |-> NoDrop,
   target |-> Nil, queued |-> FALSE, paused |-> FALSE, was_tiling |-> FALSE,
   nearest_index_before |-> 0 - 1, nearest_parent_before |-> Nil,
   window_index_before |-> 0 - 1, window_parent_before |-> Nil,
   monitor_before |-> Nil, drag_before |-> NoDrag, splits_before |-> {},
   fault |-> "", again |-> FALSE]

NoFindCall == [mons |-> <<>>, anchor |-> Point(0, 0), called |-> FALSE,
               ok |-> TRUE, monitor |-> Nil]

NoArrangeCall == [window |-> Nil, called |-> FALSE, mouse_pos |-> Point(0, 0),
                  fault |-> "", ok |-> TRUE, err |-> "",
                  monitor_before |-> Nil]

NoDropCall == [mouse_pos |-> Point(0, 0),
               rect |-> [left |-> 0, top |-> 0, right |-> 0, bottom |-> 0],
               out |-> ""]

\* The tree after start-up: monitors under the root, one displayed workspace
\* per monitor, every window a child of a workspace.
InitTree(nmon, modes, home, dirs) ==
  LET mons == IF nmon = 1 THEN <<Root + 1>> ELSE <<Root + 1, Root + 2>>
      live == {Root} \cup Range(mons) \cup {HomeWorkspace(m) : m \in Range(mons)}
                \cup Windows
  IN  /\ kind = [c \in Ids |->
                   IF c = Root THEN "root"
                   ELSE IF c \in Range(mons) THEN "monitor"
                   ELSE IF c \in live /\ c \in WorkspaceIds THEN "workspace"
                   ELSE IF c \in Windows THEN ModeKind(modes[c])
                   ELSE "none"]
      /\ parent = [c \in Ids |->
                   IF c \in Range(mons) THEN Root
                   ELSE IF c \in live /\ c \in WorkspaceIds THEN c - 2
                   ELSE IF c \in Windows THEN home[c]
                   ELSE Nil]
      /\ children = [c \in Ids |->
                   IF c = Root THEN mons
                   ELSE IF c \in Range(mons) THEN <<HomeWorkspace(c)>>
                   ELSE IF c \in live /\ c \in WorkspaceIds
                   THEN SeqOf({w \in Windows : home[w] = c})
                   ELSE <<>>]
      /\ focus_order = children
      /\ tiling_direction = [c \in Ids |->
                   IF c \in live /\ c \in WorkspaceIds THEN dirs[c] ELSE ""]
      /\ wstate = [c \in Ids |->
                   IF c \in Windows THEN ModeState(modes[c]) ELSE ""]
      /\ active_drag = [w \in Windows |-> ModeDrag(modes[w])]
      /\ floating_placement = [w \in Windows |-> FloatingPlacement(w)]

\* The start-up states explored: every window tiles, or one window alone is
\* in another situation (the dragged one anywhere, any other in second
\* place), or every window floats. With two monitors the last window may
\* start on the second one, whose workspace tiles across the first one's
\* direction. A paused WM is explored with two monitors and a drag under way.
Init ==
  /\ \E nmon \in 1..2 :
     \E modes \in [Windows -> WindowModes] :
     \E away \in BOOLEAN :
     \E dir \in TilingDirections :
       LET lastw == Root + 4 + NumWindows
           odd == {w \in Windows : modes[w] /= "tiling"}
           home == [w \in Windows |->
                      IF away /\ w = lastw THEN HomeWorkspace(Root + 2)
                      ELSE HomeWorkspace(Root + 1)]
           dirs == [c \in WorkspaceIds |->
                      IF c = HomeWorkspace(Root + 1) THEN dir ELSE inverse(dir)]
       IN  /\ \/ odd = {}
              \/ \E w \in Windows : odd = {w} /\ modes[w] = "dragged"
              \/ odd = {Root + 6}
              \/ \A w \in Windows : modes[w] = "floating"
           /\ away => nmon = 2
           /\ InitTree(nmon, modes, home, dirs)
           /\ is_paused \in BOOLEAN
           /\ is_paused => nmon = 2 /\ ~away /\ active_drag[Root + 6].set
  /\ pending_sync = [focus_change |-> FALSE, cursor_jump |-> FALSE,
                     containers_to_redraw |-> {}]
  /\ events = 0
  /\ last = NoEvent
  /\ dp = NoDropCall
  /\ fm = NoFindCall
  /\ ta = NoArrangeCall

SetTree(T) ==
  /\ kind' = T.kind
  /\ parent' = T.parent
  /\ children' = T.children
  /\ tiling_direction' = T.tiling_direction
  /\ focus_order' = T.focus_order
  /\ wstate' = T.wstate

\* ------------------------------------------------------------------ actions

\* The index at which update_window_state places the window: where it is.
Insertions(w) ==
  IF w /= Nil /\ kind[w] = "non_tiling_window" /\ parent[w] = workspace(Tree, w)
  THEN {index(Tree, w)}
  ELSE {0}

\* The cursor positions that make a difference to the event: all of them
\* when the handler asks for the mouse position.
MouseRead(w) ==
  IF w = Nil \/ is_paused THEN {Point(0, 0)}
  ELSE IF kind[w] = "tiling_window"
  THEN (IF Len(monitors(Tree)) < 2 THEN {Point(0, 0)} ELSE MousePoints)
  ELSE IF active_drag[w].set /\ active_drag[w].is_from_tiling
          /\ active_drag[w].operation = "Moving"
  THEN MousePoints ELSE {Point(0, 0)}

DragOf(w) == IF w = Nil THEN NoDrag ELSE active_drag[w]

\* A moved/resized-end event arrives for the native window of w.
WindowMovedOrResizedEnd ==
  /\ events < MaxEvents
  /\ \E T \in {Tree} :
     \E w \in Windows \cup {Nil} :
     \E mouse_pos \in MouseRead(w) :
     \E insertion \in Insertions(w) :
     \E clean \in {handle_window_moved_or_resized_end(
                  T, is_paused, w, DragOf(w), mouse_pos, insertion, "")} :
     \E fail \in {""} \cup clean.reached :
     \E r \in {IF fail = "" THEN clean
               ELSE handle_window_moved_or_resized_end(
                  T, is_paused, w, DragOf(w), mouse_pos, insertion, fail)} :
       LET n == r.drop.nearest
       IN  /\ ~r.blocked
           /\ SetTree(r.T)
           /\ active_drag' = IF r.cleared
                             THEN [active_drag EXCEPT ![w] = NoDrag]
                             ELSE active_drag
           /\ pending_sync' =
                [pending_sync EXCEPT !.containers_to_redraw = @ \cup r.redraw]
           /\ last' = [NoEvent EXCEPT
                !.op = "moved_or_resized_end", !.window = w, !.ok = r.ok,
                !.err = r.err, !.arrange_err = r.arrange_err,
                !.cleared = r.cleared, !.resized = r.resized,
                !.drop = r.drop, !.paused = is_paused, !.fault = fail,
                !.was_tiling = (w /= Nil /\ kind[w] = "tiling_window"),
                !.nearest_index_before =
                   IF n = Nil \/ parent[n] = Nil THEN 0 - 1 ELSE index(T, n),
                !.nearest_parent_before = IF n = Nil THEN Nil ELSE parent[n],
                !.window_index_before = IF w = Nil THEN 0 - 1 ELSE index(T, w),
                !.window_parent_before = IF w = Nil THEN Nil ELSE parent[w],
                !.monitor_before = IF w = Nil THEN Nil ELSE monitor(T, w),
                !.drag_before = DragOf(w),
                !.splits_before = {c \in Splits : kind[c] /= "none"}]
  /\ events' = events + 1
  /\ UNCHANGED <<floating_placement, is_paused, dp, fm, ta>>

\* The focus command, from a window or a workspace.
FocusInDirection ==
  /\ events < MaxEvents
  /\ \E T \in {Tree} :
     \E origin \in {c \in Windows \cup WorkspaceIds : kind[c] /= "none"} :
     \E direction \in Directions :
     \E r \in {focus_in_direction(T, origin, direction)} :
           /\ SetTree(r.T)
           /\ pending_sync' =
                IF r.queued
                THEN [pending_sync EXCEPT !.focus_change = TRUE,
                                          !.cursor_jump = TRUE]
                ELSE pending_sync
           /\ last' = [NoEvent EXCEPT
                !.op = "focus_in_direction", !.window = origin,
                !.direction = direction, !.ok = r.ok, !.target = r.target,
                !.queued = r.queued,
                !.again = /\ last.op = "focus_in_direction"
                          /\ last.window = origin
                          /\ last.direction = direction
                          /\ last.ok /\ last.target = Nil]
  /\ events' = events + 1
  /\ UNCHANGED <<floating_placement, active_drag, is_paused, dp, fm, ta>>

Next == WindowMovedOrResizedEnd \/ FocusInDirection

Spec == Init /\ [][Next]_vars

\* drop_position on its own: any point against any rect, within the bound.
DropCoord == 4
DropRects == {r \in [left : 0..DropCoord, top : 0..DropCoord,
                     right : 0..DropCoord, bottom : 0..DropCoord] :
                r.left <= r.right /\ r.top <= r.bottom}
DropPoints == {Point(x, y) : x \in 0..DropCoord, y \in 0..DropCoord}

InitDropPosition ==
  /\ InitTree(1, [w \in Windows |-> "tiling"],
              [w \in Windows |-> HomeWorkspace(Root + 1)],
              [c \in WorkspaceIds |-> "Horizontal"])
  /\ is_paused = FALSE
  /\ pending_sync = [focus_change |-> FALSE, cursor_jump |-> FALSE,
                     containers_to_redraw |-> {}]
  /\ events = 0
  /\ last = NoEvent
  /\ fm = NoFindCall
  /\ ta = NoArrangeCall
  /\ \E p \in DropPoints : \E r \in DropRects :
       dp = [mouse_pos |-> p, rect |-> r, out |-> ""]

CallDropPosition ==
  /\ dp.out = ""
  /\ dp' = [dp EXCEPT !.out = drop_position(dp.mouse_pos, dp.rect)]
  /\ UNCHANGED <<kind, parent, children, tiling_direction, focus_order,
                 wstate, floating_placement, active_drag, is_paused,
                 pending_sync, events, last, fm, ta>>

SpecDropPosition == InitDropPosition /\ [][CallDropPosition]_vars

\* Directional focus on its own: one focus command from a tree in which the
\* windows tile, float, are fullscreen or minimized, on one or two monitors,
\* with any child of a workspace the most recently focused one, two tiling
\* windows possibly inside a split, and floating windows spread, mirrored or
\* level with each other. FocusAway bounds the windows that start on the
\* second monitor, FocusRotations the place of the focused child.
FocusAway == 2
FocusRotations == 2
FocusModes == {"tiling", "floating", "fullscreen", "minimized"}
FocusShapes == {"flat", "split_across", "split_along"}
FloatPlacements == {"spread", "mirrored", "level"}

Rotate(s, k) ==
  IF Len(s) = 0 THEN s
  ELSE SubSeq(s, (k % Len(s)) + 1, Len(s)) \o SubSeq(s, 1, k % Len(s))

PlacementOf(pattern, w) ==
  CASE pattern = "spread" -> FloatingPlacement(w)
    [] pattern = "mirrored" ->
         Point(FloatingPlacement(w).y, FloatingPlacement(w).x)
    [] OTHER -> Point((w - (Root + 5)) \div 2, 1)

\* The tree of InitTree as one value.
StartTree(nmon, modes, home, dirs) ==
  LET mons == IF nmon = 1 THEN <<Root + 1>> ELSE <<Root + 1, Root + 2>>
      wss == {HomeWorkspace(m) : m \in Range(mons)}
      kids == [c \in Ids |->
                 IF c = Root THEN mons
                 ELSE IF c \in Range(mons) THEN <<HomeWorkspace(c)>>
                 ELSE IF c \in wss THEN SeqOf({w \in Windows : home[w] = c})
                 ELSE <<>>]
  IN  [kind |-> [c \in Ids |->
                   IF c = Root THEN "root"
                   ELSE IF c \in Range(mons) THEN "monitor"
                   ELSE IF c \in wss THEN "workspace"
                   ELSE IF c \in Windows THEN ModeKind(modes[c])
                   ELSE "none"],
       parent |-> [c \in Ids |->
                   IF c \in Range(mons) THEN Root
                   ELSE IF c \in wss THEN c - 2
                   ELSE IF c \in Windows THEN home[c]
                   ELSE Nil],
       children |-> kids,
       tiling_direction |-> [c \in Ids |-> IF c \in wss THEN dirs[c] ELSE ""],
       focus_order |-> kids,
       wstate |-> [c \in Ids |->
                   IF c \in Windows THEN ModeState(modes[c]) ELSE ""]]

\* The last two tiling children of the first workspace inside a split.
Shaped(T, shape) ==
  LET ws == HomeWorkspace(Root + 1)
      tc == tiling_children(T, ws)
      n == Len(tc)
      d == IF shape = "split_across" THEN inverse(T.tiling_direction[ws])
           ELSE T.tiling_direction[ws]
  IN  IF shape = "flat" \/ n < 2 THEN T
      ELSE move_container_within_tree(
             wrap_in_split_container(T, NewSplit(T), d, ws, tc[n]),
             tc[n - 1], NewSplit(T), 0)

\* The k-th child of every workspace made the most recently focused one.
Focused(T, k) ==
  [T EXCEPT !.focus_order = [c \in Ids |->
     IF T.kind[c] = "workspace" THEN Rotate(T.children[c], k)
     ELSE T.children[c]]]

InitFocus ==
  /\ \E nmon \in 1..2 :
     \E modes \in [Windows -> FocusModes] :
     \E away \in 0..FocusAway :
     \E dir \in TilingDirections :
     \E shape \in FocusShapes :
     \E k \in 0..FocusRotations :
     \E pattern \in FloatPlacements :
       LET home == [w \in Windows |->
                      IF w > (Root + 4 + NumWindows) - away
                      THEN HomeWorkspace(Root + 2)
                      ELSE HomeWorkspace(Root + 1)]
           dirs == [c \in WorkspaceIds |->
                      IF c = HomeWorkspace(Root + 1) THEN dir ELSE inverse(dir)]
           floating == {w \in Windows : modes[w] = "floating"}
           T0 == StartTree(nmon, modes, home, dirs)
       IN  /\ away > 0 => nmon = 2
           /\ pattern /= "spread" => Cardinality(floating) >= 2
           /\ shape /= "flat" =>
                Len(tiling_children(T0, HomeWorkspace(Root + 1))) >= 2
           /\ \E T \in {Focused(Shaped(T0, shape), k)} :
                /\ kind = T.kind
                /\ parent = T.parent
                /\ children = T.children
                /\ tiling_direction = T.tiling_direction
                /\ focus_order = T.focus_order
                /\ wstate = T.wstate
           /\ floating_placement = [w \in Windows |-> PlacementOf(pattern, w)]
  /\ active_drag = [w \in Windows |-> NoDrag]
  /\ is_paused = FALSE
  /\ pending_sync = [focus_change |-> FALSE, cursor_jump |-> FALSE,
                     containers_to_redraw |-> {}]
  /\ events = MaxEvents - 1
  /\ last = NoEvent
  /\ dp = NoDropCall
  /\ fm = NoFindCall
  /\ ta = NoArrangeCall

SpecFocus == InitFocus /\ [][FocusInDirection]_vars

\* find_monitor_by_anchor_point on its own: up to FmMonitors monitors, each
\* with a rect within FmCoord (overlapping and empty ones included) or with
\* an unknown geometry, against any point within FmCoord.
FmCoord == 2
FmMonitors == 2
FmRects == {r \in [left : 0..FmCoord, top : {0}, right : 0..FmCoord,
                   bottom : {0, FmCoord}] : r.left <= r.right}
FmGeometries ==
  {[known |-> TRUE, rect |-> r] : r \in FmRects}
    \cup {[known |-> FALSE,
           rect |-> [left |-> 0, top |-> 0, right |-> 0, bottom |-> 0]]}
FmPoints == {Point(x, y) : x \in 0..FmCoord, y \in 0..FmCoord}

InitFindMonitor ==
  /\ InitTree(1, [w \in Windows |-> "tiling"],
              [w \in Windows |-> HomeWorkspace(Root + 1)],
              [c \in WorkspaceIds |-> "Horizontal"])
  /\ is_paused = FALSE
  /\ pending_sync = [focus_change |-> FALSE, cursor_jump |-> FALSE,
                     containers_to_redraw |-> {}]
  /\ events = 0
  /\ last = NoEvent
  /\ dp = NoDropCall
  /\ ta = NoArrangeCall
  /\ \E n \in 0..FmMonitors : \E g \in [1..n -> FmGeometries] :
     \E p \in FmPoints :
       fm = [NoFindCall EXCEPT
               !.mons = [i \in 1..n |->
                           [id |-> Root + i, known |-> g[i].known,
                            rect |-> g[i].rect]],
               !.anchor = p]

CallFindMonitor ==
  /\ ~fm.called
  /\ \E r \in {try_for_each(fm.mons, fm.anchor)} :
       fm' = [fm EXCEPT !.called = TRUE, !.ok = r.ok, !.monitor = r.monitor]
  /\ UNCHANGED <<kind, parent, children, tiling_direction, focus_order,
                 wstate, floating_placement, active_drag, is_paused,
                 pending_sync, events, last, dp, ta>>

SpecFindMonitor == InitFindMonitor /\ [][CallFindMonitor]_vars

\* The monitor arrangement on its own: one call for a tiling window, with the
\* cursor anywhere, from a tree of tiling and floating windows on one or two
\* monitors. The second monitor may be one for which no workspace could be
\* activated, so that it displays none.
Bare(T, m) ==
  [T EXCEPT !.kind[HomeWorkspace(m)] = "none",
            !.parent[HomeWorkspace(m)] = Nil,
            !.tiling_direction[HomeWorkspace(m)] = "",
            !.children[m] = <<>>,
            !.focus_order[m] = <<>>]

InitArrange ==
  /\ \E nmon \in 1..2 :
     \E modes \in [Windows -> {"tiling", "floating"}] :
     \E away \in 0..FocusAway :
     \E bare \in BOOLEAN :
     \E dir \in TilingDirections :
       LET home == [w \in Windows |->
                      IF w > (Root + 4 + NumWindows) - away
                      THEN HomeWorkspace(Root + 2)
                      ELSE HomeWorkspace(Root + 1)]
           dirs == [c \in WorkspaceIds |->
                      IF c = HomeWorkspace(Root + 1) THEN dir ELSE inverse(dir)]
           T0 == StartTree(nmon, modes, home, dirs)
       IN  /\ away > 0 => nmon = 2
           /\ bare => nmon = 2 /\ away = 0
           /\ \E T \in {IF bare THEN Bare(T0, Root + 2) ELSE T0} :
                /\ kind = T.kind
                /\ parent = T.parent
                /\ children = T.children
                /\ tiling_direction = T.tiling_direction
                /\ focus_order = T.focus_order
                /\ wstate = T.wstate
           /\ floating_placement = [w \in Windows |-> PlacementOf("spread", w)]
  /\ active_drag = [w \in Windows |-> NoDrag]
  /\ is_paused = FALSE
  /\ pending_sync = [focus_change |-> FALSE, cursor_jump |-> FALSE,
                     containers_to_redraw |-> {}]
  /\ events = 0
  /\ last = NoEvent
  /\ dp = NoDropCall
  /\ fm = NoFindCall
  /\ ta = NoArrangeCall

\* try_arrange_window_between_monitors is called for a tiling window, as the
\* handler calls it; any fallible call it reaches may fail.
CallTryArrange ==
  /\ ~ta.called
  /\ \E T \in {Tree} :
     \E w \in {c \in Windows : kind[c] = "tiling_window"} :
     \E mouse_pos \in MousePoints :
     \E clean \in {try_arrange_window_between_monitors(T, w, mouse_pos, "")} :
     \E fail \in {""} \cup clean.reached :
     \E r \in {IF fail = "" THEN clean
               ELSE try_arrange_window_between_monitors(T, w, mouse_pos, fail)} :
       /\ ~r.blocked
       /\ SetTree(r.T)
       /\ pending_sync' =
            [pending_sync EXCEPT !.containers_to_redraw = @ \cup r.redraw]
       /\ ta' = [window |-> w, called |-> TRUE, mouse_pos |-> mouse_pos,
                 fault |-> fail, ok |-> r.ok, err |-> r.err,
                 monitor_before |-> monitor(T, w)]
  /\ UNCHANGED <<floating_placement, active_drag, is_paused, events, last,
                 dp, fm>>

SpecArrange == InitArrange /\ [][CallTryArrange]_vars

\* ------------------------------------------------------------------- claims

Live == {c \in Ids : kind[c] /= "none"}
Occurrences(c) ==
  {<<p, i>> \in Ids \X (1..Cardinality(Ids)) :
     i <= Len(children[p]) /\ children[p][i] = c}
MovedEnd == last.op = "moved_or_resized_end"

\* C1: at every point of every sequence of focus commands and moved/resized
\* end events, the tree has exactly one root, every child's recorded parent
\* is the container whose children hold it, each child is held exactly once,
\* and no container id occurs twice.
C1_TreeWellFormed ==
  /\ {c \in Live : kind[c] = "root"} = {Root}
  /\ {c \in Live : parent[c] = Nil} = {Root}
  /\ \A p \in Ids : \A i \in 1..Len(children[p]) :
       /\ p \in Live
       /\ children[p][i] \in Live
       /\ parent[children[p][i]] = p
  /\ \A c \in Live \ {Root} :
       Cardinality({i \in 1..Len(children[parent[c]]) :
                      children[parent[c]][i] = c}) = 1
  /\ \A c \in Ids : Cardinality(Occurrences(c)) <= 1

\* A drop made a split, and then a window migrated to the other monitor.
C1_Witness ==
  /\ MovedEnd /\ last.was_tiling
  /\ monitor(Tree, last.window) /= last.monitor_before
  /\ \E s \in Splits : kind[s] = "split" /\ Len(children[s]) = 2

SplitDrop == MovedEnd /\ last.drop.done /\ last.drop.split /= Nil
InsertDrop == MovedEnd /\ last.drop.done /\ last.drop.split = Nil

\* The dropped window was an earlier child of the target parent than the
\* nearest container when the event arrived.
DroppedFromBefore ==
  /\ last.window_parent_before = last.drop.target_parent
  /\ last.nearest_parent_before = last.drop.target_parent
  /\ last.window_index_before < last.nearest_index_before

SplitShape(s, d, w, kids) ==
  /\ kind[s] = "split"
  /\ tiling_direction[s] = inverse(tiling_direction[d.target_parent])
  /\ parent[s] = d.target_parent
  /\ children[s] = kids

\* C2 as stated: after a drop that needed a split, the split has the inverse
\* of the target parent's direction, holds [dropped, W] (Top/Left) or
\* [W, dropped] (Bottom/Right), and sits in the target parent at the index W
\* had before the drop.
C2_Original ==
  SplitDrop =>
    LET d == last.drop
        w == last.window
    IN  /\ SplitShape(d.split, d, w,
                      IF d.position \in {"Top", "Left"}
                      THEN <<w, d.nearest>> ELSE <<d.nearest, w>>)
        /\ index(Tree, d.split) = last.nearest_index_before

\* C2 amended: the split has the inverse direction and holds [dropped, W] or
\* [W, dropped] when W is another window than the dropped one (W alone when
\* it is the dropped window itself), and then sits at the index W had before
\* the drop, less one when the dropped window was an earlier child of the
\* same parent.
C2_Amended ==
  SplitDrop =>
    LET d == last.drop
        w == last.window
    IN  IF d.nearest = w THEN SplitShape(d.split, d, w, <<w>>)
        ELSE
          /\ SplitShape(d.split, d, w,
                        IF d.position \in {"Top", "Left"}
                        THEN <<w, d.nearest>> ELSE <<d.nearest, w>>)
          /\ index(Tree, d.split) =
               last.nearest_index_before - (IF DroppedFromBefore THEN 1 ELSE 0)

\* A split drop of a window that was an earlier child of the same parent.
C2_Witness == SplitDrop /\ last.drop.nearest /= last.window /\ DroppedFromBefore

\* C3 as stated: after a drop that needed no split, the moved window is a
\* child of the target parent directly before the nearest container
\* (Top/Left) or directly after it (Bottom/Right).
C3_Original ==
  InsertDrop =>
    LET d == last.drop
        w == last.window
    IN  /\ parent[w] = d.target_parent
        /\ parent[d.nearest] = d.target_parent
        /\ IF d.position \in {"Top", "Left"}
           THEN index(Tree, w) + 1 = index(Tree, d.nearest)
           ELSE index(Tree, w) = index(Tree, d.nearest) + 1

Across(direction, position) ==
  \/ direction = "Horizontal" /\ position \in {"Top", "Bottom"}
  \/ direction = "Vertical" /\ position \in {"Left", "Right"}

SplitsMade == {c \in Splits : kind[c] /= "none"} \ last.splits_before

\* C4: an event makes a split only when the nearest container is a tiling
\* window and the drop position is across the target parent's direction,
\* and a drop that went through makes one exactly then.
C4_SplitIffAcross ==
  MovedEnd =>
    LET d == last.drop
        across == /\ d.decided
                  /\ kind[d.nearest] = "tiling_window"
                  /\ Across(tiling_direction[d.target_parent], d.position)
    IN  /\ SplitsMade /= {} => across
        /\ d.done => (SplitsMade /= {} <=> across)

\* A Top or Bottom drop on a window of a Horizontal parent made a split.
C4_Witness ==
  /\ MovedEnd /\ last.drop.done /\ SplitsMade /= {}
  /\ tiling_direction[last.drop.target_parent] = "Horizontal"

\* C5: drop_position answers Right when |dx| > |dy| and dx > 0, Left when
\* |dx| > |dy| and dx < 0, Bottom when |dx| <= |dy| and dy > 0, and Top
\* when |dx| <= |dy| and dy <= 0, dx and dy being the point less the
\* rect's center.
C5_DropPosition ==
  dp.out /= "" =>
    LET dx == dp.mouse_pos.x - (dp.rect.left + ((dp.rect.right - dp.rect.left) \div 2))
        dy == dp.mouse_pos.y - (dp.rect.top + ((dp.rect.bottom - dp.rect.top) \div 2))
        wide == dx * dx > dy * dy
    IN  /\ dp.out = "Right" <=> (wide /\ dx > 0)
        /\ dp.out = "Left" <=> (wide /\ dx < 0)
        /\ dp.out = "Bottom" <=> (~wide /\ dy > 0)
        /\ dp.out = "Top" <=> (~wide /\ dy <= 0)

\* A point on a diagonal, off the center, was classified.
C5_Witness ==
  /\ dp.out \in {"Top", "Bottom"}
  /\ LET dx == dp.mouse_pos.x - center_point(dp.rect).x
         dy == dp.mouse_pos.y - center_point(dp.rect).y
     IN  dx /= 0 /\ dx * dx = dy * dy

\* C6 as stated: the nearest container is the first, in children order, of
\* the tiling children at the least distance from the drop point.
C6_Original ==
  (MovedEnd /\ last.drop.decided) => last.drop.nearest = last.drop.tied[1]

\* C6 amended: the nearest container is the last, in children order, of the
\* tiling children at the least distance from the drop point.
C6_Amended ==
  (MovedEnd /\ last.drop.decided) =>
    last.drop.nearest = last.drop.tied[Len(last.drop.tied)]

\* A drop at a point with two tiling children at the least distance.
C6_Witness == MovedEnd /\ last.drop.decided /\ Len(last.drop.tied) >= 2

\* C7 as stated: after the handler has handled an event for a managed window
\* while the WM is not paused, with every step of the handling successful,
\* the window's active drag is cleared.
C7_Original ==
  (MovedEnd /\ ~last.paused /\ last.window /= Nil /\ last.fault = "") =>
    ~active_drag[last.window].set

ArrangementFaults ==
  {"mouse_position", "move_window_to_workspace", "mouse_position_again",
   "to_rect", "wrap_in_split_container", "move_container_within_tree"}

\* C8: the error of a failed monitor arrangement is never the error the
\* handler returns.
C8_ArrangementErrorNotReturned ==
  (MovedEnd /\ last.was_tiling /\ last.arrange_err /= "") =>
    /\ last.arrange_err \in ArrangementFaults
    /\ last.err /= last.arrange_err

\* The positioning in the new workspace failed.
C8_Witness ==
  /\ MovedEnd /\ last.was_tiling
  /\ last.arrange_err \in {"to_rect", "wrap_in_split_container",
                           "move_container_within_tree"}

\* The window went to another monitor's workspace and a later step of the
\* arrangement failed.
MigratedUnpositioned ==
  /\ last.was_tiling /\ last.arrange_err /= ""
  /\ monitor(Tree, last.window) /= last.monitor_before

\* The nearest container was wrapped in a split the window never entered.
WrappedUnentered == last.drop.split /= Nil /\ ~last.drop.done

\* C9 as stated: the handler never returns success with the tree holding
\* only part of an arrangement.
C9_Original ==
  (MovedEnd /\ last.ok) => ~(MigratedUnpositioned \/ WrappedUnentered)

\* The levels the tiling traversal passes: the origin and its ancestors
\* below the workspace.
Levels(o) ==
  {a \in Range(self_and_ancestors(Tree, o)) :
     kind[a] \in {"tiling_window", "split"}}

\* s is a tiling sibling of a on the side the direction points to, under a
\* parent that tiles along the direction's axis.
SiblingAhead(a, s, direction) ==
  /\ parent[a] /= Nil /\ parent[s] = parent[a] /\ s /= a
  /\ IsTilingContainer(Tree, s)
  /\ tiling_direction[parent[a]] = from_direction(direction)
  /\ IF direction \in {"Right", "Down"}
     THEN index(Tree, s) > index(Tree, a)
     ELSE index(Tree, s) < index(Tree, a)

TilingTarget(o, direction) == tiling_focus_target(Tree, o, direction).target

\* C10: from every tiling window and in every direction, a tiling target is
\* a sibling ahead of the origin or of one of its ancestors, or lies under
\* such a sibling; so there is none when no level has a sibling ahead, and
\* from the last tiling child of a split the target is never in that split.
C10_NoWrap ==
  \A o \in {w \in Windows : kind[w] = "tiling_window"} :
  \A direction \in Directions :
    LET t == TilingTarget(o, direction)
    IN  /\ tiling_focus_target(Tree, o, direction).ok
        /\ t /= Nil =>
             \E a \in Levels(o) : \E s \in Live :
               /\ SiblingAhead(a, s, direction)
               /\ t = s \/ t \in Descendants(Tree, s)
        /\ (t /= Nil /\ ~\E s \in Live : SiblingAhead(o, s, direction)) =>
             parent[t] /= parent[o]

\* Focus went Right from the last of two tiling children of a Horizontal
\* split, and did not come back to the first.
C10_Witness ==
  /\ last.op = "focus_in_direction" /\ last.direction = "Right"
  /\ kind[last.window] = "tiling_window"
  /\ kind[parent[last.window]] = "split"
  /\ tiling_direction[parent[last.window]] = "Horizontal"
  /\ Len(tiling_children(Tree, parent[last.window])) = 2
  /\ tiling_children(Tree, parent[last.window])[2] = last.window
  /\ last.target /= tiling_children(Tree, parent[last.window])[1]

\* The anchor of a floating window on the direction's axis: the x or the y
\* of its top-left corner.
Anchor(c, direction) ==
  IF direction \in {"Left", "Right"}
  THEN floating_placement[c].x ELSE floating_placement[c].y

FloatingWindows ==
  {w \in Windows : kind[w] = "non_tiling_window" /\ wstate[w] = "Floating"}

\* The Floating siblings of o that lie strictly ahead of it in the direction.
Ahead(o, direction) ==
  {c \in FloatingWindows :
     /\ c /= o /\ parent[c] = parent[o]
     /\ IF direction \in {"Right", "Down"}
        THEN Anchor(c, direction) > Anchor(o, direction)
        ELSE Anchor(c, direction) < Anchor(o, direction)}

C12_NoTargetNoChange ==
  [][/\ (last'.op = "focus_in_direction" /\ last'.target = Nil) =>
          /\ last'.ok /\ ~last'.queued
          /\ UNCHANGED <<kind, parent, children, tiling_direction,
                         focus_order, wstate, active_drag, pending_sync>>
     /\ (last'.op = "focus_in_direction" /\ last'.again) =>
          last'.ok /\ last'.target = Nil]_vars

\* The same focus command was given twice from the right edge of the only
\* monitor and found no target either time.
C12_Witness ==
  /\ last.op = "focus_in_direction" /\ last.again
  /\ last.ok /\ last.target = Nil /\ last.direction = "Right"
  /\ kind[last.window] = "tiling_window"
  /\ Len(monitors(Tree)) = 1

\* The places, in the root's order, of the monitors whose geometry is known
\* and whose rect contains the anchor.
FmHits ==
  {i \in 1..Len(fm.mons) :
     fm.mons[i].known /\ contains_point(fm.mons[i].rect, fm.anchor)}

\* C13: find_monitor_by_anchor_point returns no error; it returns the first
\* monitor, in the root's order, whose known rect contains the point (the
\* only one when the rects are disjoint), passing over monitors of unknown
\* geometry, and absence when no known rect contains the point.
C13_FirstContainingMonitor ==
  fm.called =>
    /\ fm.ok
    /\ FmHits = {} => fm.monitor = Nil
    /\ FmHits /= {} =>
         \E i \in FmHits :
           /\ fm.monitor = fm.mons[i].id
           /\ \A j \in FmHits : i <= j

\* The first monitor has no known geometry and the second holds the point.
C13_Witness ==
  /\ fm.called /\ Len(fm.mons) = 2
  /\ ~fm.mons[1].known
  /\ FmHits = {2} /\ fm.monitor = fm.mons[2].id

\* The displayed workspace of the monitor next to c's monitor in the
\* direction; Nil when there is no such monitor or it displays none.
NextWorkspace(c, direction) ==
  LET next == monitor_in_direction(Tree, monitor(Tree, c), direction)
  IN  IF next = Nil THEN Nil ELSE displayed_workspace(Tree, next)

\* The most recently focused child of a container, Nil when it has none.
FocusedChild(c) == IF Len(focus_order[c]) = 0 THEN Nil ELSE focus_order[c][1]

TilingContainerKinds == {"tiling_window", "split"}

SkippedLevels(o, direction) ==
  {a \in Levels(o) : tiling_direction[parent[a]] /= from_direction(direction)}

\* s is another child of a's parent, or lies under one.
UnderSiblingOf(a, s) ==
  \E b \in Live :
    /\ b /= a /\ parent[b] = parent[a]
    /\ s = b \/ s \in Descendants(Tree, b)

\* C16: from every tiling window and in every direction, the tiling target
\* is never a sibling, nor under a sibling, of a level whose parent tiles
\* along the other axis; when every level of the walk has such a parent
\* there is no target; and a target that is a sibling's window has a parent
\* tiling along the direction's axis.
C16_SearchOnlyMatchingLevels ==
  \A o \in {w \in Windows : kind[w] = "tiling_window"} :
  \A direction \in Directions :
    LET t == TilingTarget(o, direction)
    IN  /\ \A a \in SkippedLevels(o, direction) :
             t /= Nil => ~UnderSiblingOf(a, t)
        /\ SkippedLevels(o, direction) = Levels(o) => t = Nil
        /\ (t /= Nil /\ \E a \in Levels(o) : parent[t] = parent[a]) =>
             tiling_direction[parent[t]] = from_direction(direction)

\* Focus went from a tiling window of a split that tiles along the other
\* axis and in which a sibling lies on the index side of the direction;
\* the target was found outside that split.
C16_Witness ==
  /\ last.op = "focus_in_direction" /\ last.target /= Nil
  /\ kind[last.window] = "tiling_window"
  /\ kind[last.target] = "tiling_window"
  /\ kind[parent[last.window]] = "split"
  /\ tiling_direction[parent[last.window]] /= from_direction(last.direction)
  /\ \E s \in Live :
       /\ parent[s] = parent[last.window] /\ IsTilingContainer(Tree, s)
       /\ IF last.direction \in {"Right", "Down"}
          THEN index(Tree, s) > index(Tree, last.window)
          ELSE index(Tree, s) < index(Tree, last.window)
  /\ parent[last.target] = parent[parent[last.window]]

\* C17: a moved-or-resized-end event handled while the WM is paused returns
\* success and leaves the container tree, every window's state and active
\* drag, and the pending-sync queue as they were.
C17_PausedNoChange ==
  [][(last'.op = "moved_or_resized_end" /\ is_paused) =>
       /\ last'.ok /\ last'.err = ""
       /\ UNCHANGED <<kind, parent, children, tiling_direction, focus_order,
                      wstate, floating_placement, active_drag, pending_sync>>]_vars

\* A paused WM handled the event of a window dragged out of the tiling
\* layout; the window still floats and still has its active drag.
C17_Witness ==
  /\ MovedEnd /\ last.paused /\ is_paused
  /\ last.window /= Nil
  /\ kind[last.window] = "non_tiling_window"
  /\ last.drag_before.set /\ last.drag_before.is_from_tiling
  /\ last.drag_before.operation = "Moving"
  /\ active_drag[last.window] = last.drag_before

\* Before the step, w is a tiling window that is the only tiling child of
\* its workspace; the step is the handler's, for w, with the WM not paused,
\* and leaves w on its monitor.
SoleChildResizeEnd(w) ==
  /\ last'.op = "moved_or_resized_end" /\ last'.window = w /\ ~is_paused
  /\ kind[w] = "tiling_window"
  /\ kind[parent[w]] = "workspace"
  /\ Len(tiling_siblings(Tree, w)) = 0
  /\ monitor(Tree, w)' = monitor(Tree, w)

TreeUnchanged ==
  UNCHANGED <<kind, parent, children, tiling_direction, focus_order, wstate>>

MigrationTargets(w, pos) ==
  {m \in Range(monitors(Tree)) :
     /\ m /= monitor(Tree, w)
     /\ contains_point(to_rect(Tree, m), pos)
     /\ displayed_workspace(Tree, m) /= Nil}

OutsideEveryMonitor(pos) ==
  \A m \in Range(monitors(Tree)) : ~contains_point(to_rect(Tree, m), pos)

\* C19: a call of the cross-monitor step for a tiling window changes the
\* tree only if there are at least two monitors and the mouse position lies
\* in a monitor other than the window's that displays a workspace, and then
\* the window is in that workspace; with fewer than two monitors, with the
\* mouse on the window's own monitor or outside every monitor, the tree is
\* unchanged, and the step returns success unless reading the mouse
\* position failed.
C19_MigrationOnlyAcrossMonitors ==
  [][\A w \in Windows : \A pos \in MousePoints :
       (ta'.called /\ ~ta.called /\ ta'.window = w /\ ta'.mouse_pos = pos) =>
           /\ ~TreeUnchanged =>
                /\ Len(monitors(Tree)) >= 2
                /\ \E m \in MigrationTargets(w, pos) :
                     workspace(Tree, w)' = displayed_workspace(Tree, m)
           /\ (\/ Len(monitors(Tree)) < 2
               \/ contains_point(to_rect(Tree, monitor(Tree, w)), pos)
               \/ OutsideEveryMonitor(pos)) =>
                /\ TreeUnchanged
                /\ ta'.fault /= "mouse_position" => ta'.ok]_vars

\* The step was called with the mouse on the other monitor and moved the
\* window into that monitor's displayed workspace.
C19_Witness ==
  /\ ta.called /\ ta.ok
  /\ Len(monitors(Tree)) = 2
  /\ monitor(Tree, ta.window) /= ta.monitor_before
  /\ contains_point(to_rect(Tree, monitor(Tree, ta.window)), ta.mouse_pos)
  /\ workspace(Tree, ta.window) =
       displayed_workspace(Tree, monitor(Tree, ta.window))

\* The handler migrated a tiling window to another monitor's workspace and
\* move_window_to_position then chose a nearest container for its drop, no
\* call having failed.
MigrationDrop ==
  /\ MovedEnd /\ last.was_tiling /\ last.fault = ""
  /\ last.drop.via = "move_window_to_position" /\ last.drop.decided
  /\ last.drop.nearest /= Nil

\* C20 as stated: in a cross-monitor migration the nearest container chosen
\* by move_window_to_position is never the migrated window itself, so no
\* split is created around the window for its own drop.
C20_Original ==
  MigrationDrop =>
    /\ last.drop.nearest /= last.window
    /\ last.drop.split /= Nil => children[last.drop.split] /= <<last.window>>

\* The active drag that sends a floating window back to the tiling layout:
\* one that started from tiling and is a Moving operation.
TilingMoveDrag(drag) ==
  drag.set /\ drag.is_from_tiling /\ drag.operation = "Moving"

\* C21: a moved-or-resized-end event for a non-tiling window whose active
\* drag is absent, not from tiling or not a Moving operation leaves the
\* container tree and the pending-sync queue unchanged and the window
\* non-tiling; a non-tiling window is tiling after the event only if its
\* active drag was from tiling and a Moving operation.
C21_OnlyTilingMoveDragConverts ==
  [][\A w \in Windows :
       (/\ last'.op = "moved_or_resized_end" /\ last'.window = w
        /\ kind[w] = "non_tiling_window") =>
         /\ ~TilingMoveDrag(active_drag[w]) =>
              /\ TreeUnchanged
              /\ UNCHANGED pending_sync
              /\ kind'[w] = "non_tiling_window"
         /\ kind'[w] = "tiling_window" => TilingMoveDrag(active_drag[w])]_vars

\* The event came, with the WM not paused, for a floating window moved by a
\* drag that did not start from tiling, in a workspace with tiling windows:
\* the window still floats where it was and nothing is queued.
C21_Witness ==
  /\ MovedEnd /\ ~last.paused /\ last.ok /\ last.cleared
  /\ kind[last.window] = "non_tiling_window"
  /\ last.drag_before.set /\ ~last.drag_before.is_from_tiling
  /\ last.drag_before.operation = "Moving"
  /\ last.window_parent_before = parent[last.window]
  /\ Len(tiling_children(Tree, parent[last.window])) >= 1
  /\ pending_sync.containers_to_redraw = {}

====
